---- MODULE Spec2Model ----
\* A model of MeetWrapper (src/src/MeetWrapper.js): the room tracker that binds
\* a StreamDeck to the Google Meet page.  The host page (DOM), the device and
\* the lighting helper are the environment; every MutationObserver callback
\* and the keydown handler is one action, translated from its code.
EXTENDS Integers, Sequences, FiniteSets, TLC

VARIABLES
  pathname,            \* window.location.pathname when the wrapper was constructed
  dom,                 \* the elements of the page the wrapper queries
  streamDeck,          \* the device: isConnected and its button layout
  hueLights,           \* the lighting helper: present or not, and its auto flag
  currentRoom,         \* #currentRoom
  isPresenting,        \* #isPresenting
  isSidePanelVisible,  \* #isSidePanelVisible
  ccButtonReady,       \* #ccButtonReady
  handButtonReady,     \* #handButtonReady
  observers,           \* which elements currently carry a MutationObserver of the wrapper
  attached,            \* how many hand / cc observers were ever attached
  pending,             \* observer callbacks (microtasks) queued and not yet run
  draining,            \* the microtask queue is being emptied
  lastOp,              \* the step that ran last
  roomBefore,          \* #currentRoom before the last step
  effects,             \* the requests the last step issued, in order
  threw,               \* the last step ended with an uncaught exception
  pressed,             \* the button id of the last step, when it was a key press
  display              \* what each device button shows

vars == <<pathname, dom, streamDeck, hueLights, currentRoom, isPresenting,
          isSidePanelVisible, ccButtonReady, handButtonReady, observers,
          attached, pending, draining, lastOp, roomBefore, effects, threw,
          pressed, display>>

tracker == <<currentRoom, isPresenting, isSidePanelVisible, ccButtonReady,
             handButtonReady, observers, attached>>

-----------------------------------------------------------------------------
\* Names and values

ROOM_NAMES == [lobby |-> "lobby", greenRoom |-> "greenRoom",
               meeting |-> "meeting", exitHall |-> "exitHall"]

Undefined == "undefined"

Rooms == {ROOM_NAMES.lobby, ROOM_NAMES.greenRoom, ROOM_NAMES.meeting,
          ROOM_NAMES.exitHall}

\* The icon / button names the wrapper passes to buttonNameToId.
IconNames ==
  {"light-on", "light-off", "start-next", "start-instant", "enter-meeting",
   "mic", "mic-disabled", "cam", "cam-disabled", "users", "users-open",
   "chat", "chat-open", "present-stop", "blank", "hand", "hand-raised",
   "cc", "cc-on", "end-call", "rejoin", "home"}

\* The selectors handed to #tapElement.
TapSelectors ==
  {"[jsname=CuSyi]", "[data-default-focus=true]", "[jsname=Qx7uuf]",
   "[jscontroller=soHxf]", "[jsname=CQylAd]", "[jsname=oI7Fj] [role=button]",
   "[jsname=WIVZEd] [role=button]"}

\* A 15-key layout: one button per control, the variants of a control share it.
LayoutFull ==
  [n \in IconNames |->
     CASE n = "light-on" -> 0
       [] n = "light-off" -> 1
       [] n = "start-next" -> 2
       [] n = "start-instant" -> 3
       [] n = "enter-meeting" -> 4
       [] n \in {"mic", "mic-disabled"} -> 5
       [] n \in {"cam", "cam-disabled"} -> 6
       [] n \in {"users", "users-open"} -> 7
       [] n \in {"chat", "chat-open"} -> 8
       [] n \in {"present-stop", "blank"} -> 9
       [] n \in {"hand", "hand-raised"} -> 10
       [] n \in {"cc", "cc-on"} -> 11
       [] n = "end-call" -> 12
       [] n = "rejoin" -> 13
       [] n = "home" -> 14]

\* A 6-key layout: rooms reuse the buttons, and many names are not in it.
LayoutMini ==
  [n \in IconNames |->
     CASE n \in {"start-next", "enter-meeting", "rejoin", "users", "users-open"} -> 0
       [] n \in {"start-instant", "home", "hand", "hand-raised"} -> 1
       [] n \in {"mic", "mic-disabled"} -> 2
       [] n \in {"cam", "cam-disabled"} -> 3
       [] n = "end-call" -> 4
       [] OTHER -> -1]

Layouts == {LayoutFull, LayoutMini}

ButtonIds == 0 .. 14

NoIcon == "none"

-----------------------------------------------------------------------------
\* Calls and requests to the collaborators, as recorded in effects

Draw(iconName) == [op |-> "drawButton", arg |-> iconName]
Fill(iconName) == [op |-> "fillURL", arg |-> iconName]
Clear == [op |-> "clearAllButtons", arg |-> ""]
Click(target) == [op |-> "click", arg |-> target]
HueOn(val) == [op |-> "hue.on", arg |-> IF val THEN "true" ELSE "false"]

\* The device's display after the requests es, from display d.
RECURSIVE Render(_, _)
Render(d, es) ==
  IF es = <<>> THEN d
  ELSE LET e == Head(es)
           d1 == IF e.op = "clearAllButtons" THEN [b \in ButtonIds |-> NoIcon]
                 ELSE IF e.op = "fillURL"
                      THEN [d EXCEPT ![streamDeck.layout[e.arg]] = e.arg]
                      ELSE d
       IN Render(d1, Tail(es))

-----------------------------------------------------------------------------
\* Drawing icons (#drawButton, #resetButtons, #drawHueButtons)

buttonNameToId(name) == streamDeck.layout[name]

\* A draw that does not test the button id.
drawButtonAnyId(iconName) ==
  IF ~streamDeck.isConnected THEN <<Draw(iconName)>>
  ELSE <<Draw(iconName), Fill(iconName)>>

\* A call of #drawButton is recorded as such, followed by the fill request it
\* sends to the device unless it returns early.
drawButton(iconName) ==
  IF ~streamDeck.isConnected THEN <<Draw(iconName)>>
  ELSE IF buttonNameToId(iconName) < 0 THEN <<Draw(iconName)>>
  ELSE <<Draw(iconName), Fill(iconName)>>

resetButtons ==
  IF ~streamDeck.isConnected THEN <<>> ELSE <<Clear>>

drawHueButtons ==
  IF ~streamDeck.isConnected THEN <<>>
  ELSE IF ~hueLights.present THEN <<>>
  ELSE drawButton("light-on") \o drawButton("light-off")

\* if (this.#hueLights?.auto) this.#hueLights.on(false)
autoLightsOff ==
  IF hueLights.present /\ hueLights.auto THEN <<HueOn(FALSE)>> ELSE <<>>

-----------------------------------------------------------------------------
\* Feature updates

getStopPresentingButton == dom.stopBtn

\* The result of #updateIsPresenting: the new flag and the draws.
updateIsPresenting ==
  LET newVal == getStopPresentingButton
  IN IF isPresenting = newVal
     THEN [isPresenting |-> isPresenting, effects |-> <<>>]
     ELSE [isPresenting |-> newVal,
           effects |-> drawButton(IF newVal THEN "present-stop" ELSE "blank")]

\* A test that takes every value but "false" for muted.
isMutedAttrNotFalse(elem) == elem # "false"

\* dataset.isMuted == 'true'
isMutedAttr(elem) == elem = "true"

\* An update that draws the unmuted icon whatever the attribute says.
updateIsMicMutedNoTest ==
  IF dom.mic # "absent" THEN drawButton("mic") ELSE <<>>

updateIsMicMuted ==
  IF dom.mic # "absent"
  THEN drawButton(IF isMutedAttr(dom.mic) THEN "mic-disabled" ELSE "mic")
  ELSE <<>>

updateIsCamMuted ==
  IF dom.cam # "absent"
  THEN drawButton(IF isMutedAttr(dom.cam) THEN "cam-disabled" ELSE "cam")
  ELSE <<>>

\* classList.contains(marker)
hasMarkerClass(elem) == elem = "marked"

updateHandState ==
  IF dom.hand # "absent"
  THEN drawButton(IF hasMarkerClass(dom.hand) THEN "hand-raised" ELSE "hand")
  ELSE <<>>

updateCCState ==
  IF dom.cc # "absent"
  THEN drawButton(IF hasMarkerClass(dom.cc) THEN "cc-on" ELSE "cc")
  ELSE <<>>

\* picker?.querySelector('[aria-selected=true]')?.getAttribute('data-tab-id')
selectedId == IF dom.picker \in {"absent", "unselected"} THEN Undefined ELSE dom.picker

\* An update that tests the same tab id for both icons.
updateSidePanelSameId ==
  drawButton(IF selectedId = "1" THEN "users-open" ELSE "users")
  \o drawButton(IF selectedId = "1" THEN "chat-open" ELSE "chat")

updateSidePanel ==
  drawButton(IF selectedId = "1" THEN "users-open" ELSE "users")
  \o drawButton(IF selectedId = "2" THEN "chat-open" ELSE "chat")

-----------------------------------------------------------------------------
\* Entering a room.  Each operator gives the outcome of the method: the new
\* #currentRoom, the requests issued, the observers attached and whether the
\* method ended with an exception.

Outcome(room, effs, obs, exc) ==
  [currentRoom |-> room, effects |-> effs, observers |-> obs, threw |-> exc]

NoChange == Outcome(currentRoom, <<>>, observers, FALSE)

\* The requests of #enterLobby once it has set the room.
lobbyRequests ==
  resetButtons \o drawHueButtons \o drawButton("start-next")
    \o drawButton("start-instant") \o autoLightsOff

enterLobby ==
  IF currentRoom = ROOM_NAMES.lobby THEN NoChange
  ELSE Outcome(ROOM_NAMES.lobby, lobbyRequests, observers, FALSE)

enterGreenRoom ==
  IF currentRoom = ROOM_NAMES.greenRoom THEN NoChange
  ELSE Outcome(ROOM_NAMES.greenRoom,
               resetButtons \o drawHueButtons \o drawButton("enter-meeting")
                 \o updateIsMicMuted \o updateIsCamMuted \o autoLightsOff,
               observers, FALSE)

getStatusBar == dom.statusBar

\* MutationObserver.observe(null, ...) throws a TypeError: the status bar is
\* observed first, then the side panel container; the redraws come after both.
enterMeeting ==
  IF currentRoom = ROOM_NAMES.meeting THEN NoChange
  ELSE IF ~getStatusBar
       THEN Outcome(ROOM_NAMES.meeting, <<>>, observers, TRUE)
  ELSE IF ~dom.sidePanel
       THEN Outcome(ROOM_NAMES.meeting, <<>>,
                    [observers EXCEPT !.statusBar = TRUE], TRUE)
  ELSE Outcome(ROOM_NAMES.meeting,
               resetButtons \o drawHueButtons \o updateSidePanel
                 \o updateIsMicMuted \o updateIsCamMuted \o updateHandState
                 \o updateCCState \o drawButton("end-call") \o autoLightsOff,
               [observers EXCEPT !.statusBar = TRUE, !.sidePanel = TRUE],
               FALSE)

enterExitHall ==
  IF currentRoom = ROOM_NAMES.exitHall THEN NoChange
  ELSE Outcome(ROOM_NAMES.exitHall,
               resetButtons \o drawHueButtons \o drawButton("rejoin")
                 \o drawButton("home") \o autoLightsOff,
               observers, FALSE)

\* A chain that tests the green-room marker first.
classifyGreenRoomFirst ==
  IF "greenRoom" \in dom.markers THEN ROOM_NAMES.greenRoom
  ELSE IF "meeting" \in dom.markers THEN ROOM_NAMES.meeting
  ELSE IF "exitHall" \in dom.markers THEN ROOM_NAMES.exitHall
  ELSE Undefined

\* The room the body observer's if / else-if chain picks, or Undefined.
classify ==
  IF "meeting" \in dom.markers THEN ROOM_NAMES.meeting
  ELSE IF "greenRoom" \in dom.markers THEN ROOM_NAMES.greenRoom
  ELSE IF "exitHall" \in dom.markers THEN ROOM_NAMES.exitHall
  ELSE Undefined

\* A chain that ends with the lobby when no marker is found.
enterClassifiedOrLobby ==
  CASE classify = ROOM_NAMES.meeting -> enterMeeting
    [] classify = ROOM_NAMES.greenRoom -> enterGreenRoom
    [] classify = ROOM_NAMES.exitHall -> enterExitHall
    [] OTHER -> enterLobby

enterClassified ==
  CASE classify = ROOM_NAMES.meeting -> enterMeeting
    [] classify = ROOM_NAMES.greenRoom -> enterGreenRoom
    [] classify = ROOM_NAMES.exitHall -> enterExitHall
    [] OTHER -> NoChange

-----------------------------------------------------------------------------
\* Simulated clicks

tapElement(querySelector) ==
  IF querySelector \in dom.controls THEN <<Click(querySelector)>> ELSE <<>>

Tapped(effs) == [effects |-> effs, threw |-> FALSE]
TypeError == [effects |-> <<>>, threw |-> TRUE]

tapStartInstantMeeting == Tapped(tapElement("[jsname=CuSyi]"))
tapStartNextMeeting == Tapped(tapElement("[data-default-focus=true]"))
tapEnterMeeting == Tapped(tapElement("[jsname=Qx7uuf]"))
tapMic == Tapped(IF dom.mic # "absent" THEN <<Click("mic")>> ELSE <<>>)
tapCam == Tapped(IF dom.cam # "absent" THEN <<Click("cam")>> ELSE <<>>)
tapHand == Tapped(IF dom.hand # "absent" THEN <<Click("hand")>> ELSE <<>>)
tapCC == Tapped(IF dom.cc # "absent" THEN <<Click("cc")>> ELSE <<>>)
tapClosePanel == Tapped(tapElement("[jscontroller=soHxf]"))

\* userButton is dereferenced without a null check on both branches.
tapUsers ==
  IF dom.userTab = "absent" THEN TypeError
  ELSE IF dom.panel /\ dom.userTab = "true" THEN tapClosePanel
  ELSE Tapped(<<Click("[data-tab-id=1]")>>)

tapChat ==
  IF dom.chatTab = "absent" THEN TypeError
  ELSE IF dom.panel /\ dom.chatTab = "true" THEN tapClosePanel
  ELSE Tapped(<<Click("[data-tab-id=2]")>>)

tapStopPresenting ==
  Tapped(IF getStopPresentingButton THEN <<Click("[jsname=PTpBtc]")>> ELSE <<>>)
tapHangUp == Tapped(tapElement("[jsname=CQylAd]"))
tapRejoin == Tapped(tapElement("[jsname=oI7Fj] [role=button]"))
tapHome == Tapped(tapElement("[jsname=WIVZEd] [role=button]"))

\* this.#hueLights.on(val): #hueLights is dereferenced without a null check.
lightsOn(val) ==
  IF hueLights.present THEN Tapped(<<HueOn(val)>>) ELSE TypeError

\* The branches of #handleStreamDeckPress for each room.
pressLobby(buttonId) ==
  IF buttonId = buttonNameToId("start-next") THEN tapStartNextMeeting
  ELSE IF buttonId = buttonNameToId("start-instant") THEN tapStartInstantMeeting
  ELSE Tapped(<<>>)

pressGreenRoom(buttonId) ==
  IF buttonId = buttonNameToId("enter-meeting") THEN tapEnterMeeting
  ELSE IF buttonId = buttonNameToId("mic") THEN tapMic
  ELSE IF buttonId = buttonNameToId("cam") THEN tapCam
  ELSE Tapped(<<>>)

pressMeeting(buttonId) ==
  IF buttonId = buttonNameToId("users") THEN tapUsers
  ELSE IF buttonId = buttonNameToId("chat") THEN tapChat
  ELSE IF buttonId = buttonNameToId("present-stop") THEN tapStopPresenting
  ELSE IF buttonId = buttonNameToId("mic") THEN tapMic
  ELSE IF buttonId = buttonNameToId("cam") THEN tapCam
  ELSE IF buttonId = buttonNameToId("hand") THEN tapHand
  ELSE IF buttonId = buttonNameToId("cc") THEN tapCC
  ELSE IF buttonId = buttonNameToId("end-call") THEN tapHangUp
  ELSE Tapped(<<>>)

pressExitHall(buttonId) ==
  IF buttonId = buttonNameToId("rejoin") THEN tapRejoin
  ELSE IF buttonId = buttonNameToId("home") THEN tapHome
  ELSE Tapped(<<>>)

\* A dispatch that takes the meeting branch without testing the room.
handleStreamDeckPressNoRoomTest(buttonId) ==
  IF buttonId = buttonNameToId("light-on") THEN lightsOn(TRUE)
  ELSE IF buttonId = buttonNameToId("light-off") THEN lightsOn(FALSE)
  ELSE IF currentRoom = ROOM_NAMES.lobby THEN pressLobby(buttonId)
  ELSE IF currentRoom = ROOM_NAMES.greenRoom THEN pressGreenRoom(buttonId)
  ELSE pressMeeting(buttonId)

handleStreamDeckPress(buttonId) ==
  IF buttonId = buttonNameToId("light-on") THEN lightsOn(TRUE)
  ELSE IF buttonId = buttonNameToId("light-off") THEN lightsOn(FALSE)
  ELSE IF currentRoom = ROOM_NAMES.lobby THEN pressLobby(buttonId)
  ELSE IF currentRoom = ROOM_NAMES.greenRoom THEN pressGreenRoom(buttonId)
  ELSE IF currentRoom = ROOM_NAMES.meeting THEN pressMeeting(buttonId)
  ELSE IF currentRoom = ROOM_NAMES.exitHall THEN pressExitHall(buttonId)
  ELSE Tapped(<<>>)

-----------------------------------------------------------------------------
\* The initial state: the wrapper has just been constructed.

LandingPath == "/"
MeetingPath == "/abc-defg-hij"

EmptyDom ==
  [markers |-> {}, statusBar |-> FALSE, sidePanel |-> FALSE,
   picker |-> "absent", mic |-> "absent", cam |-> "absent",
   hand |-> "absent", cc |-> "absent", stopBtn |-> FALSE, panel |-> FALSE,
   userTab |-> "absent", chatTab |-> "absent", controls |-> {}]

\* A page that already shows the call controls when the wrapper is constructed.
CallDom ==
  [EmptyDom EXCEPT !.statusBar = TRUE, !.sidePanel = TRUE, !.picker = "1",
                   !.mic = "true", !.cam = "false", !.hand = "marked",
                   !.cc = "plain", !.controls = TapSelectors]

NoObservers ==
  [body |-> FALSE, mute |-> FALSE, statusBar |-> FALSE, sidePanel |-> FALSE,
   selectedPanel |-> FALSE, hand |-> FALSE, cc |-> FALSE]

BlankDisplay == [b \in ButtonIds |-> NoIcon]

HueChoices ==
  {[present |-> FALSE, auto |-> FALSE], [present |-> TRUE, auto |-> FALSE],
   [present |-> TRUE, auto |-> TRUE]}

\* The constructor: on the landing page it enters the lobby and returns; on
\* any other path it installs the body observer and the mute observer.
Init ==
  /\ pathname \in {LandingPath, MeetingPath}
  /\ streamDeck \in [isConnected : BOOLEAN, layout : Layouts]
  /\ hueLights \in HueChoices
  /\ dom \in {EmptyDom, CallDom}
  /\ isPresenting = FALSE
  /\ isSidePanelVisible = FALSE
  /\ ccButtonReady = FALSE
  /\ handButtonReady = FALSE
  /\ attached = [hand |-> 0, cc |-> 0]
  /\ pending = {}
  /\ draining = FALSE
  /\ lastOp = "constructor"
  /\ roomBefore = Undefined
  /\ threw = FALSE
  /\ pressed = {}
  /\ IF pathname = LandingPath
     THEN /\ currentRoom = ROOM_NAMES.lobby
          /\ observers = NoObservers
          /\ effects = lobbyRequests
     ELSE /\ currentRoom = Undefined
          /\ observers = [NoObservers EXCEPT !.body = TRUE, !.mute = TRUE]
          /\ effects = <<>>
  /\ display = Render(BlankDisplay, effects)

-----------------------------------------------------------------------------
\* Scheduling.  A task of the page mutates the DOM; the observers it notifies
\* get their callbacks at the microtask checkpoint after the task, in the order
\* the observers were created (body, mute, then the ones made on entering the
\* meeting).  The part of the mute callback after its first await is a later
\* microtask.  A key press is a task of its own.

Notify(cbs) == pending \cup cbs

\* What a step of the page or the device leaves in the log.
Quiet(op) ==
  /\ lastOp' = op
  /\ roomBefore' = currentRoom
  /\ effects' = <<>>
  /\ threw' = FALSE
  /\ pressed' = {}
  /\ display' = display

\* What a handler leaves in the log, and on the device.
Ran(op, effs, exc) ==
  /\ lastOp' = op
  /\ roomBefore' = currentRoom
  /\ effects' = effs
  /\ threw' = exc
  /\ pressed' = {}
  /\ display' = Render(display, effs)

Dequeue(cb, more) ==
  /\ cb \in pending
  /\ pending' = (pending \ {cb}) \cup more
  /\ draining' = (pending' # {})

-----------------------------------------------------------------------------
\* The handlers

\* bodyObserver callback (constructor): classify, enter, then
\* #updateIsPresenting unless entering threw.
BodyCallback ==
  /\ Dequeue("body", {})
  /\ LET e == enterClassified
         p == updateIsPresenting
     IN /\ currentRoom' = e.currentRoom
        /\ observers' = e.observers
        /\ isPresenting' = IF e.threw THEN isPresenting ELSE p.isPresenting
        /\ Ran("bodyObserver",
               IF e.threw THEN e.effects ELSE e.effects \o p.effects, e.threw)
  /\ UNCHANGED <<pathname, dom, streamDeck, hueLights, isSidePanelVisible,
                 ccButtonReady, handButtonReady, attached>>

\* muteObserver callback up to its first await: #updateIsMicMuted.
MuteCallback ==
  /\ "body" \notin pending
  /\ Dequeue("mute", {"muteCam"})
  /\ Ran("muteObserver", updateIsMicMuted, FALSE)
  /\ UNCHANGED <<pathname, dom, streamDeck, hueLights, tracker>>

\* muteObserver callback after the first await: #updateIsCamMuted.  It runs
\* once the observer callbacks of the same checkpoint have run.
MuteContinuation ==
  /\ pending = {"muteCam"}
  /\ Dequeue("muteCam", {})
  /\ Ran("muteObserver.cam", updateIsCamMuted, FALSE)
  /\ UNCHANGED <<pathname, dom, streamDeck, hueLights, tracker>>

LaterObserver == "body" \notin pending /\ "mute" \notin pending

getHandButton == dom.hand # "absent"
getCCButton == dom.cc # "absent"

\* A test that sets up the hand button whenever it is found.
setupHandWhenFound == getHandButton

\* #setupHandButton / #setupCCButton are reached only with the element found.
setupHand == ~handButtonReady /\ getHandButton
setupCC == ~ccButtonReady /\ getCCButton

\* statusBarObserver callback whose records include added nodes.
StatusBarAdded ==
  /\ LaterObserver
  /\ Dequeue("statusBarAdded", {})
  /\ handButtonReady' = (handButtonReady \/ setupHand)
  /\ ccButtonReady' = (ccButtonReady \/ setupCC)
  /\ observers' = [observers EXCEPT !.hand = @ \/ setupHand,
                                    !.cc = @ \/ setupCC]
  /\ attached' = [hand |-> attached.hand + (IF setupHand THEN 1 ELSE 0),
                  cc |-> attached.cc + (IF setupCC THEN 1 ELSE 0)]
  /\ Ran("statusBarObserver",
         (IF setupHand THEN updateHandState ELSE <<>>)
           \o (IF setupCC THEN updateCCState ELSE <<>>), FALSE)
  /\ UNCHANGED <<pathname, dom, streamDeck, hueLights, currentRoom,
                 isPresenting, isSidePanelVisible>>

\* statusBarObserver callback whose records add no node: nothing to do.
StatusBarOther ==
  /\ LaterObserver
  /\ Dequeue("statusBar", {})
  /\ Ran("statusBarObserver", <<>>, FALSE)
  /\ UNCHANGED <<pathname, dom, streamDeck, hueLights, tracker>>

\* sidePanelObserver callback.
SidePanelCallback ==
  /\ LaterObserver
  /\ Dequeue("sidePanel", {})
  /\ LET newVal == dom.picker # "absent"
     IN IF isSidePanelVisible = newVal
        THEN /\ Ran("sidePanelObserver", <<>>, FALSE)
             /\ UNCHANGED <<isSidePanelVisible, observers>>
        ELSE /\ isSidePanelVisible' = newVal
             /\ observers' = [observers EXCEPT !.selectedPanel = @ \/ newVal]
             /\ Ran("sidePanelObserver", updateSidePanel, FALSE)
  /\ UNCHANGED <<pathname, dom, streamDeck, hueLights, currentRoom,
                 isPresenting, ccButtonReady, handButtonReady, attached>>

\* selectedPanelObserver callback.
SelectedPanelCallback ==
  /\ LaterObserver
  /\ Dequeue("selectedPanel", {})
  /\ Ran("selectedPanelObserver", updateSidePanel, FALSE)
  /\ UNCHANGED <<pathname, dom, streamDeck, hueLights, tracker>>

\* handObserver callback.
HandCallback ==
  /\ LaterObserver
  /\ Dequeue("hand", {})
  /\ Ran("handObserver", updateHandState, FALSE)
  /\ UNCHANGED <<pathname, dom, streamDeck, hueLights, tracker>>

\* ccObserver callback.
CCCallback ==
  /\ LaterObserver
  /\ Dequeue("cc", {})
  /\ Ran("ccObserver", updateCCState, FALSE)
  /\ UNCHANGED <<pathname, dom, streamDeck, hueLights, tracker>>

\* keydown listener: a task, so it runs with no microtask left.
Press ==
  /\ pending = {}
  /\ \E buttonId \in ButtonIds :
       LET r == handleStreamDeckPress(buttonId)
       IN /\ lastOp' = "keydown"
          /\ roomBefore' = currentRoom
          /\ effects' = r.effects
          /\ threw' = r.threw
          /\ pressed' = {buttonId}
          /\ display' = display
  /\ UNCHANGED <<pathname, dom, streamDeck, hueLights, tracker, pending,
                 draining>>

-----------------------------------------------------------------------------
\* The page and the device (the environment).  A task of the page may mutate
\* the DOM several times before the observers are called; it does not run
\* while the microtask queue is being emptied.  An element that is removed is
\* gone: an observer on it observes nothing of the page any more.

PageTask == ~draining

Mutate(newDom, cbs, obs) ==
  /\ PageTask
  /\ dom' = newDom
  /\ pending' = Notify(cbs)
  /\ observers' = obs
  /\ draining' = FALSE
  /\ Quiet("page")
  /\ UNCHANGED <<pathname, streamDeck, hueLights, currentRoom, isPresenting,
                 isSidePanelVisible, ccButtonReady, handButtonReady, attached>>

\* A page whose every mutation is delivered, observer or not.
ObservedOrNot(which, cb) == {cb}

Observed(which, cb) == IF observers[which] THEN {cb} ELSE {}

\* Records with added nodes make the records without them irrelevant.
StatusNotice(added) ==
  IF ~observers.statusBar THEN pending
  ELSE IF added THEN (pending \ {"statusBar"}) \cup {"statusBarAdded"}
  ELSE IF "statusBarAdded" \in pending THEN pending
  ELSE pending \cup {"statusBar"}

RoomMarkers == {"meeting", "greenRoom", "exitHall"}

\* A room marker appears in or disappears from the body's children.
ToggleMarker ==
  \E m \in RoomMarkers :
    Mutate([dom EXCEPT !.markers = IF m \in @ THEN @ \ {m} ELSE @ \cup {m}],
           Observed("body", "body"), observers)

\* Any other mutation of the body's attributes or children.
BodyTouched ==
  /\ observers.body
  /\ "body" \notin pending
  /\ Mutate(dom, {"body"}, observers)

\* The status bar ([jsname=EaZ7Cc]) appears, or goes with its buttons.
ToggleStatusBar ==
  IF dom.statusBar
  THEN Mutate([dom EXCEPT !.statusBar = FALSE, !.hand = "absent", !.cc = "absent"],
              {}, [observers EXCEPT !.statusBar = FALSE, !.hand = FALSE, !.cc = FALSE])
  ELSE Mutate([dom EXCEPT !.statusBar = TRUE], {}, observers)

\* The side panel container ([jsname=o4MlPd]) appears, or goes with its picker.
ToggleSidePanel ==
  IF dom.sidePanel
  THEN Mutate([dom EXCEPT !.sidePanel = FALSE, !.picker = "absent"],
              {}, [observers EXCEPT !.sidePanel = FALSE, !.selectedPanel = FALSE])
  ELSE Mutate([dom EXCEPT !.sidePanel = TRUE], {}, observers)

\* The stop-presenting button ([jsname=PTpBtc]) appears on the meeting screen,
\* or goes.
ToggleStopPresenting ==
  /\ dom.stopBtn \/ "meeting" \in dom.markers
  /\ Mutate([dom EXCEPT !.stopBtn = ~@], {}, observers)

TabIds == {"1", "2", "3"}

\* The tab picker ([jsname=I0Fcpe]) is added to or removed from the side panel
\* container.
TogglePicker ==
  /\ dom.sidePanel
  /\ IF dom.picker = "absent"
     THEN \E t \in TabIds \cup {"unselected"} :
            Mutate([dom EXCEPT !.picker = t], Observed("sidePanel", "sidePanel"),
                   observers)
     ELSE Mutate([dom EXCEPT !.picker = "absent"],
                 Observed("sidePanel", "sidePanel"),
                 [observers EXCEPT !.selectedPanel = FALSE])

\* aria-selected changes on a tab of the picker.
SelectTab ==
  /\ dom.picker # "absent"
  /\ \E t \in (TabIds \cup {"unselected"}) \ {dom.picker} :
       Mutate([dom EXCEPT !.picker = t],
              Observed("selectedPanel", "selectedPanel"), observers)

\* data-is-muted: "true", "false", or the attribute is not set.
MutedValues == {"true", "false", "unset"}

\* The mic button appears or goes (no attribute record), or its data-is-muted
\* attribute changes.
ToggleMic ==
  IF dom.mic = "absent"
  THEN \E v \in MutedValues : Mutate([dom EXCEPT !.mic = v], {}, observers)
  ELSE Mutate([dom EXCEPT !.mic = "absent"], {}, observers)

SetMicMuted ==
  /\ dom.mic # "absent"
  /\ \E v \in MutedValues \ {dom.mic} :
       Mutate([dom EXCEPT !.mic = v], Observed("mute", "mute"), observers)

ToggleCam ==
  IF dom.cam = "absent"
  THEN \E v \in MutedValues : Mutate([dom EXCEPT !.cam = v], {}, observers)
  ELSE Mutate([dom EXCEPT !.cam = "absent"], {}, observers)

SetCamMuted ==
  /\ dom.cam # "absent"
  /\ \E v \in MutedValues \ {dom.cam} :
       Mutate([dom EXCEPT !.cam = v], Observed("mute", "mute"), observers)

ClassValues == {"marked", "plain"}

MutateStatusBar(newDom, added, obs) ==
  /\ PageTask
  /\ dom.statusBar
  /\ dom' = newDom
  /\ pending' = StatusNotice(added)
  /\ observers' = obs
  /\ draining' = FALSE
  /\ Quiet("page")
  /\ UNCHANGED <<pathname, streamDeck, hueLights, currentRoom, isPresenting,
                 isSidePanelVisible, ccButtonReady, handButtonReady, attached>>

\* The hand button (.p2SYhf) is added to or removed from the status bar.
ToggleHand ==
  IF dom.hand = "absent"
  THEN \E v \in ClassValues :
         MutateStatusBar([dom EXCEPT !.hand = v], TRUE, observers)
  ELSE MutateStatusBar([dom EXCEPT !.hand = "absent"], FALSE,
                       [observers EXCEPT !.hand = FALSE])

\* The captions button (.Q8K3Le) is added to or removed from the status bar.
ToggleCC ==
  IF dom.cc = "absent"
  THEN \E v \in ClassValues :
         MutateStatusBar([dom EXCEPT !.cc = v], TRUE, observers)
  ELSE MutateStatusBar([dom EXCEPT !.cc = "absent"], FALSE,
                       [observers EXCEPT !.cc = FALSE])

\* Some other node is added under the status bar.
StatusBarChildAdded ==
  /\ observers.statusBar
  /\ "statusBarAdded" \notin pending
  /\ MutateStatusBar(dom, TRUE, observers)

\* The class attribute of the hand button changes.
SetHandClass ==
  /\ dom.hand # "absent"
  /\ \E v \in ClassValues \ {dom.hand} :
       Mutate([dom EXCEPT !.hand = v], Observed("hand", "hand"), observers)

\* The class attribute of the captions button changes.
SetCCClass ==
  /\ dom.cc # "absent"
  /\ \E v \in ClassValues \ {dom.cc} :
       Mutate([dom EXCEPT !.cc = v], Observed("cc", "cc"), observers)

ExpandedValues == {"true", "false"}

\* The side panel ([jsname=Yz8Ubc]) and the tab buttons the key handlers read.
TogglePanel ==
  Mutate([dom EXCEPT !.panel = ~@], {}, observers)

ToggleUserTab ==
  \E v \in (ExpandedValues \cup {"absent"}) \ {dom.userTab} :
    Mutate([dom EXCEPT !.userTab = v], {}, observers)

ToggleChatTab ==
  \E v \in (ExpandedValues \cup {"absent"}) \ {dom.chatTab} :
    Mutate([dom EXCEPT !.chatTab = v], {}, observers)

\* The application answers the click on its mic button: data-is-muted flips.
MicClicked ==
  /\ lastOp = "keydown"
  /\ effects = <<Click("mic")>>
  /\ Mutate([dom EXCEPT !.mic = IF @ = "true" THEN "false" ELSE "true"],
            Observed("mute", "mute"), observers)

\* The device is plugged in or unplugged (between tasks).
ToggleConnected ==
  /\ pending = {}
  /\ streamDeck' = [streamDeck EXCEPT !.isConnected = ~@]
  /\ Quiet("device")
  /\ UNCHANGED <<pathname, dom, hueLights, tracker, pending, draining>>

-----------------------------------------------------------------------------
\* Specifications.  The handlers are the same in all of them; each lets the
\* page change the part of the DOM its claims are about.

\* The room classifier: the page swaps room markers, the status bar, the side
\* panel container, the stop-presenting button and the mic button.
NextRooms ==
  \/ BodyCallback
  \/ ToggleMarker
  \/ BodyTouched
  \/ ToggleStatusBar
  \/ ToggleSidePanel
  \/ ToggleStopPresenting

Spec == Init /\ [][NextRooms]_vars

\* The device: as above, and the device is plugged in and unplugged.
NextDevice ==
  \/ NextRooms
  \/ ToggleConnected

InitDevice == Init /\ dom = CallDom

SpecDevice == InitDevice /\ [][NextDevice]_vars

\* The key handler: the page changes rooms and the elements the taps look up.
NextKeys ==
  \/ Press
  \/ BodyCallback
  \/ ToggleMarker
  \/ TogglePanel
  \/ ToggleUserTab
  \/ ToggleChatTab

InitKeys == Init /\ streamDeck.isConnected

SpecKeys == InitKeys /\ [][NextKeys]_vars

\* The mute observer: the page changes rooms, the mic and the cam buttons.
NextMute ==
  \/ BodyCallback
  \/ MuteCallback
  \/ MuteContinuation
  \/ ToggleMarker
  \/ ToggleMic
  \/ SetMicMuted
  \/ ToggleCam
  \/ SetCamMuted

InitNoLights == Init /\ ~hueLights.present

SpecMute == InitNoLights /\ [][NextMute]_vars

\* The side panel observers: the page changes rooms, the side panel container,
\* the tab picker and the selected tab.
NextPanel ==
  \/ BodyCallback
  \/ SidePanelCallback
  \/ SelectedPanelCallback
  \/ ToggleMarker
  \/ ToggleSidePanel
  \/ TogglePicker
  \/ SelectTab

SpecPanel == InitNoLights /\ [][NextPanel]_vars

\* The flags compared with the last known value: as above, and the page adds
\* and removes the stop-presenting button.
NextFlags ==
  \/ NextPanel
  \/ ToggleStopPresenting

SpecFlags == InitNoLights /\ [][NextFlags]_vars

\* The status bar observers: the page changes rooms, the status bar, the hand
\* and the captions buttons.
NextStatusBar ==
  \/ BodyCallback
  \/ StatusBarAdded
  \/ StatusBarOther
  \/ HandCallback
  \/ CCCallback
  \/ ToggleMarker
  \/ ToggleStatusBar
  \/ ToggleHand
  \/ ToggleCC
  \/ StatusBarChildAdded
  \/ SetHandClass
  \/ SetCCClass

InitStatusBar ==
  InitNoLights /\ streamDeck.isConnected /\ dom = CallDom

SpecStatusBar == InitStatusBar /\ [][NextStatusBar]_vars

\* Presses mirrored back: the page changes rooms, adds and removes the mic
\* button and answers the clicks on it.  A callback that is queued is run: the microtask queue is
\* emptied after every task.
NextMirror ==
  \/ Press
  \/ BodyCallback
  \/ MuteCallback
  \/ MuteContinuation
  \/ ToggleMarker
  \/ ToggleMic
  \/ MicClicked

InitMirror ==
  InitNoLights /\ streamDeck.isConnected /\ dom = CallDom

SpecMirror ==
  /\ InitMirror
  /\ [][NextMirror]_vars
  /\ WF_vars(BodyCallback)
  /\ WF_vars(MuteCallback)
  /\ WF_vars(MuteContinuation)

\* The await in the mute callback: the page changes rooms, data-is-muted of
\* the mic button and the tab picker, and keys are pressed.
NextAwait ==
  \/ Press
  \/ BodyCallback
  \/ MuteCallback
  \/ MuteContinuation
  \/ SidePanelCallback
  \/ ToggleMarker
  \/ SetMicMuted
  \/ TogglePicker

SpecAwait == InitMirror /\ [][NextAwait]_vars

-----------------------------------------------------------------------------
\* Reading the log of the last step

Requests(op) == SelectSeq(effects, LAMBDA e : e.op = op)

\* The icon names of the calls / requests of kind op in the last step.
Names(op) == {effects[i].arg : i \in {j \in DOMAIN effects : effects[j].op = op}}

Clears == Len(Requests("clearAllButtons"))

\* The last step was a body observer callback that changed the room.
Transition == lastOp = "bodyObserver" /\ currentRoom # roomBefore

\* The icons on the device.
Shown == {display[b] : b \in ButtonIds} \ {NoIcon}

LightIcons == {"light-on", "light-off"}

\* The icons the claims give each room.
RoomIcons(room) ==
  CASE room = ROOM_NAMES.lobby -> {"start-next", "start-instant"}
    [] room = ROOM_NAMES.greenRoom ->
         {"enter-meeting", "mic", "mic-disabled", "cam", "cam-disabled"}
    [] room = ROOM_NAMES.meeting ->
         {"mic", "mic-disabled", "cam", "cam-disabled", "users", "users-open",
          "chat", "chat-open", "present-stop", "blank", "hand", "hand-raised",
          "cc", "cc-on", "end-call"}
    [] room = ROOM_NAMES.exitHall -> {"rejoin", "home"}
    [] OTHER -> {}

-----------------------------------------------------------------------------
\* The room the claim C1 expects after a body observer callback.
C1_Match ==
  IF "meeting" \in dom.markers THEN "meeting"
  ELSE IF "greenRoom" \in dom.markers THEN "greenRoom"
  ELSE IF "exitHall" \in dom.markers THEN "exitHall"
  ELSE roomBefore

\* C1: after every body observer callback the current room is the marker
\* match of highest priority (meeting, then green room, then exit hall), or
\* the room as it was when no marker matches; the room changes in no other
\* step, and it is the lobby exactly when the wrapper was constructed on the
\* landing page.
C1_RoomIsLastMatch ==
  /\ lastOp = "bodyObserver" => currentRoom = C1_Match
  /\ lastOp \notin {"bodyObserver", "constructor"} => currentRoom = roomBefore
  /\ (currentRoom = "lobby") = (pathname = LandingPath)

\* A callback that finds the meeting and the green-room markers together and
\* moves from the green room to the meeting.
C1_Witness ==
  /\ lastOp = "bodyObserver"
  /\ {"meeting", "greenRoom", "exitHall"} \subseteq dom.markers
  /\ roomBefore = "greenRoom"
  /\ currentRoom = "meeting"

\* C2: a body observer callback that leaves the room as it is issues no clear,
\* no lighting request and no icon of the room classifier, and with the device
\* connected a callback issues one clear when it changes the room and none
\* when it does not.
C2_ClearsMatchRoomChanges ==
  /\ (lastOp = "bodyObserver" /\ currentRoom = roomBefore) =>
       /\ Clears = 0
       /\ Requests("hue.on") = <<>>
       /\ Names("drawButton") \subseteq {"present-stop", "blank"}
  /\ (lastOp = "bodyObserver" /\ streamDeck.isConnected) =>
       Clears = (IF currentRoom # roomBefore THEN 1 ELSE 0)

\* C3: whenever a callback makes the room the meeting (device connected), the
\* first request is the one clear, followed by the redraws of the side panel
\* tabs, of the mic, cam, hand and captions buttons that are on the page, of
\* end-call, and of the light icons when there is a lighting helper.
C3_MeetingEntryRedraws ==
  (Transition /\ currentRoom = "meeting" /\ streamDeck.isConnected) =>
    /\ Clears = 1
    /\ effects[1] = Clear
    /\ Names("drawButton") \cap {"users", "users-open"} # {}
    /\ Names("drawButton") \cap {"chat", "chat-open"} # {}
    /\ "end-call" \in Names("drawButton")
    /\ dom.mic # "absent" => Names("drawButton") \cap {"mic", "mic-disabled"} # {}
    /\ dom.cam # "absent" => Names("drawButton") \cap {"cam", "cam-disabled"} # {}
    /\ dom.hand # "absent" => Names("drawButton") \cap {"hand", "hand-raised"} # {}
    /\ dom.cc # "absent" => Names("drawButton") \cap {"cc", "cc-on"} # {}
    /\ hueLights.present => LightIcons \subseteq Names("drawButton")

\* C4: whenever a callback (or the constructor) makes the room the lobby, the
\* green room or the exit hall with the device connected, the first request
\* is the clear, the room's static icons are drawn after it, and when no
\* other callback is pending the device shows only icons of that room and the
\* light icons.
C4_OnlyRoomIconsShown ==
  ((Transition \/ lastOp = "constructor")
     /\ currentRoom \in {"lobby", "greenRoom", "exitHall"}
     /\ streamDeck.isConnected) =>
    /\ Clears = 1
    /\ effects[1] = Clear
    /\ (RoomIcons(currentRoom) \ {"mic", "mic-disabled", "cam", "cam-disabled"})
         \subseteq Names("drawButton")
    /\ pending = {} => Shown \subseteq (RoomIcons(currentRoom) \cup LightIcons)

\* C10: no handler ends with an uncaught exception.
C10_NoHandlerThrows == ~threw

\* The actions the claims bind: everywhere, and in each room.
GlobalActions == {"light-on", "light-off"}

RoomActions(room) ==
  CASE room = "lobby" -> {"start-next", "start-instant"}
    [] room = "greenRoom" -> {"enter-meeting", "mic", "cam"}
    [] room = "meeting" -> {"users", "chat", "present-stop", "mic", "cam",
                            "hand", "cc", "end-call"}
    [] room = "exitHall" -> {"rejoin", "home"}
    [] OTHER -> {}

NamesOfButton(b) == {n \in IconNames : streamDeck.layout[n] = b}

\* The last step was a press of a button with no name bound here.
Unbound ==
  /\ lastOp = "keydown"
  /\ \A b \in pressed :
       NamesOfButton(b) \cap (GlobalActions \cup RoomActions(currentRoom)) = {}

\* C5: a key press whose button carries no name that is a light action or an
\* action of the current room issues nothing, throws nothing and changes
\* neither the wrapper's state nor the page, the display or the queue.
C5_UnboundPressDoesNothing ==
  /\ [](Unbound => (effects = <<>> /\ ~threw))
  /\ [][lastOp' = "keydown" => UNCHANGED <<tracker, dom, display, pending>>]_vars

\* In the meeting, the start-next button is pressed while the element it
\* would click in the lobby is on the page.
C5_Witness ==
  /\ Unbound
  /\ currentRoom = "meeting"
  /\ \E b \in pressed : "start-next" \in NamesOfButton(b)
  /\ "[data-default-focus=true]" \in dom.controls

\* The icons the claim C6 expects for the current attribute values.
C6_MicIcon == IF dom.mic = "true" THEN "mic-disabled" ELSE "mic"
C6_CamIcon == IF dom.cam = "true" THEN "cam-disabled" ELSE "cam"

\* What the mute callback draws, and what the device shows when it is done.
C6_Drawn ==
  /\ (lastOp = "muteObserver" /\ dom.mic # "absent") =>
       Requests("drawButton") = <<Draw(C6_MicIcon)>>
  /\ (lastOp = "muteObserver.cam" /\ dom.cam # "absent") =>
       Requests("drawButton") = <<Draw(C6_CamIcon)>>
  /\ (lastOp = "muteObserver.cam" /\ dom.mic # "absent"
        /\ streamDeck.isConnected) =>
       display[streamDeck.layout["mic"]] = C6_MicIcon

\* A change of data-is-muted queues the mute callback.
C6_Queued ==
  /\ (observers.mute /\ dom.mic # "absent" /\ dom'.mic # "absent"
        /\ dom'.mic # dom.mic) => "mute" \in pending'
  /\ (observers.mute /\ dom.cam # "absent" /\ dom'.cam # "absent"
        /\ dom'.cam # dom.cam) => "mute" \in pending'

UsersIcons == {"users", "users-open"}
ChatIcons == {"chat", "chat-open"}

\* The users and chat draws of the last step.
PanelDraws ==
  SelectSeq(effects, LAMBDA e : e.op = "drawButton"
                                  /\ e.arg \in UsersIcons \cup ChatIcons)

\* C7: every side panel update draws one users icon and then one chat icon,
\* users-open exactly when the selected tab id is "1" and chat-open exactly
\* when it is "2", both closed when no tab is selected or there is no picker;
\* the selected-panel callback always makes the update.
C7_SidePanelIcons ==
  /\ lastOp = "selectedPanelObserver" => PanelDraws # <<>>
  /\ PanelDraws # <<>> =>
       PanelDraws =
         <<Draw(IF dom.picker = "1" THEN "users-open" ELSE "users"),
           Draw(IF dom.picker = "2" THEN "chat-open" ELSE "chat")>>
  /\ ~({"users-open", "chat-open"} \subseteq Names("drawButton"))
  /\ \A n \in Names("fillURL") : n \in Names("drawButton")

\* The selected tab has just become the chat tab.
C7_Witness ==
  /\ lastOp = "selectedPanelObserver"
  /\ dom.picker = "2"
  /\ Requests("fillURL") = <<Fill("users"), Fill("chat-open")>>

\* C8: in the meeting, entered with the status bar observed, every change of
\* the class of the hand button (of the captions button) queues the callback
\* that redraws its icon.
C8_ClassChangeRedraws ==
  [][(currentRoom = "meeting" /\ observers.statusBar) =>
       /\ (dom.hand # "absent" /\ dom'.hand # "absent" /\ dom'.hand # dom.hand)
            => "hand" \in pending'
       /\ (dom.cc # "absent" /\ dom'.cc # "absent" /\ dom'.cc # dom.cc)
            => "cc" \in pending']_vars

\* C9: a fill or a clear is requested only with the device connected, a fill
\* only for a name the layout gives a button id that is not negative; a draw
\* that is skipped requests nothing, and no exception comes from drawing.
C9_NoRequestWhenSkipped ==
  /\ \A i \in DOMAIN effects :
       /\ effects[i].op \in {"fillURL", "clearAllButtons"} =>
            streamDeck.isConnected
       /\ effects[i].op = "fillURL" =>
            /\ streamDeck.layout[effects[i].arg] >= 0
            /\ i > 1
            /\ effects[i - 1] = Draw(effects[i].arg)
  /\ threw => (effects = <<>> /\ ~(dom.statusBar /\ dom.sidePanel))

\* A room is entered with the device unplugged: icons are drawn, none is sent.
C9_Witness ==
  /\ Transition
  /\ ~streamDeck.isConnected
  /\ ~threw
  /\ "end-call" \in Names("drawButton")
  /\ Names("fillURL") = {}

-----------------------------------------------------------------------------
\* The room after a body observer callback that finds the markers ms, the
\* room being r before it; without a body observer there is no callback.
roomAfterCallback(r, ms, watching) ==
  IF ~watching THEN r
  ELSE IF "meeting" \in ms THEN ROOM_NAMES.meeting
  ELSE IF "greenRoom" \in ms THEN ROOM_NAMES.greenRoom
  ELSE IF "exitHall" \in ms THEN ROOM_NAMES.exitHall
  ELSE r

\* The rooms some sequence of at most n callbacks leads to from the rooms rs.
RECURSIVE RoomsWithin(_, _)
RoomsWithin(rs, n) ==
  IF n = 0 THEN rs
  ELSE RoomsWithin(rs \cup {roomAfterCallback(r, ms, observers.body) :
                              r \in rs, ms \in SUBSET RoomMarkers}, n - 1)

\* The rooms this wrapper can be in from now on.
RoomsAhead == RoomsWithin({currentRoom}, Cardinality(Rooms))

\* C11 as claimed: no room is terminal.  From the exit hall the meeting and
\* the lobby are both ahead, and from each of the four rooms some other room
\* is ahead.
C11_NoTerminalRoom ==
  /\ currentRoom = "exitHall" => {"meeting", "lobby"} \subseteq RoomsAhead
  /\ currentRoom \in Rooms => RoomsAhead # {currentRoom}

\* C11: the lobby is terminal and is entered by the constructor only: no
\* step leaves it and no step enters it, from the lobby no other room is
\* ahead and from no other room the lobby is; the green room, the meeting and
\* the exit hall can each be left again, and from the exit hall the meeting
\* and the green room are ahead.
C11_OnlyLobbyIsTerminal ==
  /\ [][(currentRoom = "lobby") = (currentRoom' = "lobby")]_vars
  /\ [](currentRoom = "lobby" => RoomsAhead = {"lobby"})
  /\ [](currentRoom # "lobby" => "lobby" \notin RoomsAhead)
  /\ [](currentRoom \in {"greenRoom", "meeting", "exitHall"} =>
          {"greenRoom", "meeting", "exitHall"} \subseteq RoomsAhead)

\* A callback has just taken the wrapper from the exit hall to the meeting.
C11_Witness ==
  /\ Transition
  /\ roomBefore = "exitHall"
  /\ currentRoom = "meeting"

-----------------------------------------------------------------------------
\* The last step was a press of the button the layout binds to name.
Pressed(name) == lastOp = "keydown" /\ pressed = {streamDeck.layout[name]}

\* C12: in every room, and before any room is set, a press of the light-on
\* button issues one lighting request with value on and nothing else, and a
\* press of the light-off button one with value off and nothing else; no
\* click is simulated for that press.
C12_LightsAreGlobal ==
  /\ Pressed("light-on") => (effects = <<HueOn(TRUE)>> /\ ~threw)
  /\ Pressed("light-off") => (effects = <<HueOn(FALSE)>> /\ ~threw)

-----------------------------------------------------------------------------
\* The last step entered a room: a callback that changed the room, or the
\* constructor on the landing page.
Entered ==
  \/ Transition
  \/ lastOp = "constructor" /\ currentRoom = ROOM_NAMES.lobby

\* The positions in the log of the lighting requests, and of the draws of the
\* icons of the room entered.
HuePositions == {i \in DOMAIN effects : effects[i].op = "hue.on"}

RoomDrawPositions ==
  {i \in DOMAIN effects :
     /\ effects[i].op = "drawButton"
     /\ effects[i].arg \in (RoomIcons(currentRoom) \cup LightIcons)
                             \ {"present-stop", "blank"}}

\* C13: the constructor and the body observer callback issue a lighting
\* request only when they enter a room with a lighting helper whose auto flag
\* is set; every such entry issues one request, with value off, after the
\* draws of the room's icons, and an entry without the helper or with auto
\* unset issues none.
C13_AutoLightsOffOnEntry ==
  lastOp \in {"bodyObserver", "constructor"} =>
    /\ HuePositions # {} => (Entered /\ hueLights.present /\ hueLights.auto)
    /\ (Entered /\ hueLights.present /\ hueLights.auto) =>
         /\ Requests("hue.on") = <<HueOn(FALSE)>>
         /\ RoomDrawPositions # {}
         /\ \A i \in HuePositions, j \in RoomDrawPositions : j < i

-----------------------------------------------------------------------------
\* The mic icon for the attribute value v.
C14_Icon(v) == IF v = "true" THEN "mic-disabled" ELSE "mic"

\* The page has just changed data-is-muted of the mic button to v, in the
\* green room or the meeting.
C14_Toggled(v) ==
  /\ lastOp = "page"
  /\ "mute" \in pending
  /\ dom.mic = v
  /\ currentRoom \in {ROOM_NAMES.greenRoom, ROOM_NAMES.meeting}

\* C14: in the green room and in the meeting, with the mic button on the
\* page, a press of the mic button of the device makes one click, on the mic
\* button, and nothing else; and when the page then changes data-is-muted,
\* the mic button of the device comes to show the icon of the new value
\* (unless the page takes the mic button away first).
C14_PressIsMirrored ==
  /\ []((Pressed("mic") /\ dom.mic # "absent"
          /\ currentRoom \in {ROOM_NAMES.greenRoom, ROOM_NAMES.meeting})
        => (effects = <<Click("mic")>> /\ ~threw))
  /\ \A v \in {"true", "false"} :
       C14_Toggled(v) ~> \/ display[streamDeck.layout["mic"]] = C14_Icon(v)
                         \/ dom.mic = "absent"

\* The mic was muted at first; after a press and the page's answer the mute
\* callback has drawn the unmuted icon.
C14_Witness ==
  /\ lastOp = "muteObserver"
  /\ currentRoom = ROOM_NAMES.meeting
  /\ dom.mic = "false"
  /\ display[streamDeck.layout["mic"]] = "mic"

-----------------------------------------------------------------------------
\* The click the claim C15 expects for a tab button whose aria-expanded is
\* expanded: on the close button of the panel when the side panel is on the
\* page and the tab is expanded, on the tab button otherwise.
C15_Click(expanded, tabButton) ==
  IF dom.panel /\ expanded = "true" THEN Click("[jscontroller=soHxf]")
  ELSE Click(tabButton)

\* C15: in the meeting a press of the users button (of the chat button)
\* makes one click, chosen from the page as it is at the press: on the close
\* button of the panel when the side panel is on the page and the tab's
\* aria-expanded is "true", on the tab button otherwise; the press changes
\* nothing of the wrapper's state.
C15_TabPressClicksOnce ==
  /\ [](currentRoom = ROOM_NAMES.meeting =>
          /\ Pressed("users") =>
               effects = <<C15_Click(dom.userTab, "[data-tab-id=1]")>>
          /\ Pressed("chat") =>
               effects = <<C15_Click(dom.chatTab, "[data-tab-id=2]")>>)
  /\ [][lastOp' = "keydown" => UNCHANGED tracker]_vars

-----------------------------------------------------------------------------
\* The present-stop and blank draws of the last step.
PresentingDraws ==
  SelectSeq(effects, LAMBDA e : e.op = "drawButton"
                                  /\ e.arg \in {"present-stop", "blank"})

\* The draws the claim C16 expects of a body observer callback that finds the
\* stop-presenting button present or not, the flag being known.
C16_Expected(known, found) ==
  IF known = found THEN <<>>
  ELSE IF found THEN <<Draw("present-stop")>>
  ELSE <<Draw("blank")>>

\* C16: a body observer callback draws present-stop when the stop-presenting
\* button is on the page and the presenting flag was false, blank when the
\* button is not and the flag was true, and neither otherwise; the side panel
\* callback draws the users and chat icons only when the picker's presence
\* differs from the side-panel flag; after every body observer callback the
\* presenting flag tells whether the button is on the page, and no other step
\* changes the flag.
C16_RedrawOnChangeOnly ==
  /\ [][lastOp' = "bodyObserver" =>
          PresentingDraws' = C16_Expected(isPresenting, dom'.stopBtn)]_vars
  /\ [][(lastOp' = "sidePanelObserver" /\ PanelDraws' # <<>>) =>
          isSidePanelVisible # (dom'.picker # "absent")]_vars
  /\ [](lastOp = "bodyObserver" => isPresenting = dom.stopBtn)
  /\ [][lastOp' # "bodyObserver" => isPresenting' = isPresenting]_vars

-----------------------------------------------------------------------------
\* What the claim C17 allows a step to do with one of the two observers:
\* count is the observers made so far, ready the flag, found the element.
C17_Step(count, countAfter, ready, readyAfter, opAfter, found) ==
  /\ ready => readyAfter
  /\ countAfter # count =>
       /\ countAfter = count + 1
       /\ opAfter = "statusBarObserver"
       /\ ~ready
       /\ found
       /\ readyAfter
  /\ readyAfter # ready => countAfter # count

\* C17: at most one hand observer and one captions observer are ever made;
\* one is made only by a status bar callback for added nodes that finds the
\* ready flag false and the button on the page, the flag is set in that step,
\* in no other step, and is never reset.
C17_ObserversAttachedOnce ==
  /\ [](attached.hand <= 1 /\ attached.cc <= 1)
  /\ [](handButtonReady = (attached.hand = 1))
  /\ [](ccButtonReady = (attached.cc = 1))
  /\ [][/\ C17_Step(attached.hand, attached'.hand, handButtonReady,
                     handButtonReady', lastOp', dom.hand # "absent")
        /\ C17_Step(attached.cc, attached'.cc, ccButtonReady,
                     ccButtonReady', lastOp', dom.cc # "absent")]_vars

\* A node is added to the status bar while the hand button on the page is
\* not the one that was observed: no observer is made, the flag being set.
C17_Witness ==
  /\ lastOp = "statusBarObserver"
  /\ currentRoom = ROOM_NAMES.meeting
  /\ attached.hand = 1
  /\ handButtonReady
  /\ dom.hand # "absent"
  /\ ~observers.hand
  /\ effects = <<>>

-----------------------------------------------------------------------------
\* C18: the mute callback is one uninterrupted step: the step that follows
\* its mic update is its cam update, with no other callback, no room change,
\* no key press and no step of the page between the two.
C18_MuteCallbackUninterrupted ==
  [][lastOp = "muteObserver" => lastOp' = "muteObserver.cam"]_vars

-----------------------------------------------------------------------------
MuteIcons == {"mic", "mic-disabled", "cam", "cam-disabled"}

MeetingIcons ==
  {"hand", "hand-raised", "cc", "cc-on", "present-stop", "blank"}
    \cup UsersIcons \cup ChatIcons

\* C19: a mic or cam icon is drawn only with the green room or the meeting
\* as the current room, and a hand, captions, users, chat, present-stop or
\* blank icon only with the meeting as the current room.
C19_FeatureIconsInTheirRooms ==
  /\ Names("drawButton") \cap MuteIcons # {} =>
       currentRoom \in {ROOM_NAMES.greenRoom, ROOM_NAMES.meeting}
  /\ Names("drawButton") \cap MeetingIcons # {} =>
       currentRoom = ROOM_NAMES.meeting

-----------------------------------------------------------------------------
\* C20: a wrapper constructed on the landing page is in the lobby from the
\* start, has no observer, stays in the lobby and, after the constructor,
\* draws and clears nothing whatever the page does; a wrapper constructed on
\* another path starts with no room, is never in the lobby, and once it has
\* a room it never is without one again.
C20_LobbyDecidedAtConstruction ==
  /\ [](pathname = LandingPath =>
          /\ currentRoom = ROOM_NAMES.lobby
          /\ observers = NoObservers
          /\ pending = {}
          /\ lastOp # "constructor" => effects = <<>>)
  /\ [](pathname # LandingPath =>
          /\ lastOp = "constructor" => currentRoom = Undefined
          /\ currentRoom # ROOM_NAMES.lobby)
  /\ [][pathname = LandingPath => display' = display]_vars
  /\ [][currentRoom # Undefined => currentRoom' # Undefined]_vars

\* On the landing page the meeting screen and its status bar have appeared:
\* the wrapper is still in the lobby and shows the lobby's icons.
C20_Witness ==
  /\ pathname = LandingPath
  /\ lastOp = "page"
  /\ "meeting" \in dom.markers
  /\ currentRoom = ROOM_NAMES.lobby
  /\ streamDeck.isConnected
  /\ display[streamDeck.layout["start-next"]] = "start-next"

====
